---- MODULE Spec2Model ----
(***************************************************************************)
(* Model of kamikaze_di's Container (src/kamikaze_di/src/container.rs).    *)
(*                                                                         *)
(* The container is a RefCell<HashMap<TypeId, Resolver>>.  A Resolver is   *)
(* Shared(Rc<Any>), Builder(Box<Any>) or Factory(RefCell<Box<Any>>).       *)
(* Builders and factories are user closures that receive &Container and    *)
(* may call resolve() and has() on it while they run, so a resolution is   *)
(* a recursion; the model keeps the recursion as an explicit stack of the  *)
(* running constructors.  A closure is user code: what it resolves, and    *)
(* whether it unwraps an Err, is chosen freely at each of its steps.  Its  *)
(* result follows the closures of the doc tests: a builder returns         *)
(* base - 1 and a factory increments its captured counter i and returns    *)
(* base - i, where base is the sum of the values it resolved.              *)
(*                                                                         *)
(* A panic ends the thread that owns the container: status becomes         *)
(* "panicked" and no operation follows.                                    *)
(***************************************************************************)
EXTENDS Integers, Sequences, FiniteSets, TLC

\* The types of the doc tests, as TypeId values.
Types == {"i16", "i32", "i64"}

\* The values handed to register(): 42 and 43 in the doc tests.
Values == {42, 43}

\* resolve() calls made in one run, by the owner of the container and by
\* the constructors together, at most.
MaxCalls == 4

VARIABLES
    resolvers,   \* Container.resolvers: TypeId -> Resolver (kind "None": no key)
    borrows,     \* shared borrows of Container.resolvers (RefCell flag) now held
    stack,       \* the running constructors, outermost first
    nextId,      \* per type: identity of the next Rc<T> allocation
    calls,       \* resolve() calls made so far
    status,      \* "running" | "panicked"
    last,        \* the call made, or returned from, in the last step
    ctorCalls,   \* per type: entries into its builder or factory closure
    okCount,     \* per type: resolve() calls that returned Ok
    handles,     \* per type: identities of the Rc handles resolve() returned
    regKind,     \* per type: the register* call that succeeded, or "None"
    regVal       \* per type: the value given to a successful register()

vars == <<resolvers, borrows, stack, nextId, calls, status, last, ctorCalls,
          okCount, handles, regKind, regVal>>

----------------------------------------------------------------------------
\* enum Resolver

NoEntry ==
    [kind |-> "None", ty |-> "none", id |-> 0, val |-> 0, state |-> 0, cell |-> FALSE]

\* Resolver::Shared(Rc::new(item)): id is the identity of the Rc, ty the
\* type the payload was erased from.
SharedEntry(t, id, val) ==
    [kind |-> "Shared", ty |-> t, id |-> id, val |-> val, state |-> 0, cell |-> FALSE]

\* Resolver::Builder(boxed)
BuilderEntry(t) ==
    [kind |-> "Builder", ty |-> t, id |-> 0, val |-> 0, state |-> 0, cell |-> FALSE]

\* Resolver::Factory(RefCell::new(boxed)): state is the counter the closure
\* captured (let mut i = 0), cell the RefCell's exclusive-borrow flag.
FactoryEntry(t) ==
    [kind |-> "Factory", ty |-> t, id |-> 0, val |-> 0, state |-> 0, cell |-> FALSE]

\* Resolver::Shared(Rc::new(item)) in consume_builder: the built item
\* replaces the builder.
memoize_as_builder(t, id, item) == BuilderEntry(t)

memoize(t, id, item) == SharedEntry(t, id, item)

\* a slip in the match arms: Shared is reported as Builder
ResolverType_swapped(entry) ==
    IF entry.kind = "Shared" THEN "Builder" ELSE entry.kind

\* a slip in the match arms: Factory is reported as Builder
ResolverType_factory_as_builder(entry) ==
    IF entry.kind = "Factory" THEN "Builder" ELSE entry.kind

\* impl From<&Resolver> for ResolverType
ResolverType(entry) == entry.kind

----------------------------------------------------------------------------
\* Container's private helpers, as functions of the map r and of the
\* number b of shared borrows of the map that are held.

\* only built dependencies are reported
has_shared_only(r, t) == r[t].kind = "Shared"

\* self.resolvers.borrow().contains_key(&type_id)
has(r, t) == r[t].kind # "None"

\* a missing key is treated as a shared dependency
get_resolver_type_or_shared(r, t) ==
    IF r[t].kind = "None" THEN "Shared" ELSE ResolverType(r[t])

\* self.resolvers.borrow().get(type_id).map(|r| r.into())
get_resolver_type(r, t) ==
    IF r[t].kind = "None" THEN "None" ELSE ResolverType(r[t])

\* the entry is read with get() and stays in the map
remove_keep(r, t) == r

\* HashMap::remove in consume_builder
remove(r, t) == [r EXCEPT ![t] = NoEntry]

\* the has() check is missing: an existing entry is overwritten
insert_overwrite(r, b, t, entry) ==
    IF b > 0 THEN [res |-> "BorrowPanic", r |-> r]
    ELSE [res |-> "Ok", r |-> [r EXCEPT ![t] = entry]]

\* the key is the TypeId of another type than T
insert_wrong_key(r, b, t, entry) ==
    IF has(r, "i64") THEN [res |-> "Duplicate", r |-> r]
    ELSE IF b > 0 THEN [res |-> "BorrowPanic", r |-> r]
    ELSE [res |-> "Ok", r |-> [r EXCEPT !["i64"] = entry]]

\* insert::<T>(resolver): Err when the key is present, otherwise
\* borrow_mut() (which panics while a shared borrow is held) and insert.
insert(r, b, t, entry) ==
    IF has(r, t) THEN [res |-> "Duplicate", r |-> r]
    ELSE IF b > 0 THEN [res |-> "BorrowPanic", r |-> r]
    ELSE [res |-> "Ok", r |-> [r EXCEPT ![t] = entry]]

\* get_shared: a clone of the stored Rc
get_shared(r, t) == [id |-> r[t].id, val |-> r[t].val]

\* the closure is called on a copy: its i += 1 is lost
factory_enter_copy(entry) == [entry EXCEPT !.cell = TRUE]

\* the closure is reached without taking the cell's exclusive borrow
factory_enter_unguarded(entry) == [entry EXCEPT !.state = @ + 1]

\* call_factory: cell.borrow_mut(), then the closure's i += 1 on the
\* borrowed closure itself
factory_enter(entry) == [entry EXCEPT !.cell = TRUE, !.state = @ + 1]

\* call_factory: the RefMut of the cell is dropped when the closure returns
factory_leave(entry) == [entry EXCEPT !.cell = FALSE]

\* the closure of register_builder's doc test: base - 1
builder_item(base) == base - 1

\* the closure of register_factory's doc test: base - i
factory_item(base, i) == base - i

----------------------------------------------------------------------------
\* The call stack

Frame(t, kind) == [t |-> t, kind |-> kind, acc |-> 0]

Top(s) == s[Len(s)]

Pop(s) == SubSeq(s, 1, Len(s) - 1)

\* a handle of value v is returned to the running constructor
Deliver(s, v) == IF s = <<>> THEN s ELSE [s EXCEPT ![Len(s)].acc = @ + v]

\* the types whose builder is running
Building(s) == {s[i].t : i \in {j \in 1..Len(s) : s[j].kind = "Builder"}}

\* the types whose constructor is running
Active(s) == {s[i].t : i \in 1..Len(s)}

Ret(op, t, res, id, val, base, depth) ==
    [op |-> op, t |-> t, res |-> res, id |-> id, val |-> val,
     base |-> base, depth |-> depth]

\* a caller that unwraps an Err panics
Unwrap(res, strict) ==
    IF res # "Ok" /\ strict THEN "panicked" ELSE "running"

----------------------------------------------------------------------------
Init ==
    /\ resolvers = [t \in Types |-> NoEntry]
    /\ borrows = 0
    /\ stack = <<>>
    /\ nextId = [t \in Types |-> 1]
    /\ calls = 0
    /\ status = "running"
    /\ last = Ret("new", "none", "Ok", 0, 0, 0, 0)
    /\ ctorCalls = [t \in Types |-> 0]
    /\ okCount = [t \in Types |-> 0]
    /\ handles = [t \in Types |-> {}]
    /\ regKind = [t \in Types |-> "None"]
    /\ regVal = [t \in Types |-> 0]

\* The three register functions take &mut self: no constructor is running.
Registration(op, t, kind, entry, v) ==
    /\ status = "running"
    /\ stack = <<>>
    /\ LET ins == insert(resolvers, borrows, t, entry) IN
       /\ resolvers' = ins.r
       /\ status' = IF ins.res = "BorrowPanic" THEN "panicked" ELSE "running"
       /\ last' = Ret(op, t, ins.res, 0, 0, 0, 0)
       /\ IF ins.res = "Ok"
          THEN /\ regKind' = [regKind EXCEPT ![t] = kind]
               /\ regVal' = [regVal EXCEPT ![t] = v]
               /\ nextId' = IF kind = "Shared"
                            THEN [nextId EXCEPT ![t] = @ + 1] ELSE nextId
          ELSE UNCHANGED <<regKind, regVal, nextId>>
    /\ UNCHANGED <<borrows, stack, calls, ctorCalls, okCount, handles>>

\* pub fn register<T>(&mut self, item: T)
register(t, v) ==
    Registration("register", t, "Shared", SharedEntry(t, nextId[t], v), v)

\* pub fn register_factory<T, F>(&mut self, factory: F)
register_factory(t) ==
    Registration("register_factory", t, "Factory", FactoryEntry(t), 0)

\* pub fn register_builder<T, B>(&mut self, builder: B)
register_builder(t) ==
    Registration("register_builder", t, "Builder", BuilderEntry(t), 0)

\* pub fn register_automatic_factory<T>(&mut self): unimplemented!()
register_automatic_factory(t) ==
    /\ status = "running"
    /\ stack = <<>>
    /\ status' = "panicked"
    /\ last' = Ret("register_automatic_factory", t, "Panic", 0, 0, 0, 0)
    /\ UNCHANGED <<resolvers, borrows, stack, nextId, calls, ctorCalls,
                   okCount, handles, regKind, regVal>>

\* pub fn has<T>(&self), from the owner or from a running constructor
Has(t) ==
    /\ status = "running"
    /\ last' = Ret("has", t, IF has(resolvers, t) THEN "True" ELSE "False",
                   0, 0, 0, Len(stack))
    /\ UNCHANGED <<resolvers, borrows, stack, nextId, calls, status,
                   ctorCalls, okCount, handles, regKind, regVal>>

has_top(t) == stack = <<>> /\ Has(t)

has_nested(t) == stack # <<>> /\ Has(t)

\* resolve::<T>() -> get -> resolve_as_any, up to the point where it
\* returns or hands control to a constructor.
resolve_as_any(t, strict) ==
    LET kind == get_resolver_type(resolvers, t)
        depth == Len(stack)
    IN
    /\ status = "running"
    /\ calls < MaxCalls
    /\ calls' = calls + 1
    /\ CASE kind = "None" ->
              /\ last' = Ret("resolve", t, "NotRegistered", 0, 0, 0, depth)
              /\ status' = Unwrap("NotRegistered", strict)
              /\ UNCHANGED <<resolvers, borrows, stack, nextId, ctorCalls,
                             okCount, handles>>
         [] kind = "Shared" ->
              LET h == get_shared(resolvers, t) IN
              /\ last' = Ret("resolve", t, "Ok", h.id, h.val, 0, depth)
              /\ stack' = Deliver(stack, h.val)
              /\ okCount' = [okCount EXCEPT ![t] = @ + 1]
              /\ handles' = [handles EXCEPT ![t] = @ \cup {h.id}]
              /\ UNCHANGED <<resolvers, borrows, nextId, status, ctorCalls>>
         [] kind = "Builder" ->
              \* consume_builder: self.resolvers.borrow_mut().remove(..)
              IF borrows > 0
              THEN /\ last' = Ret("resolve", t, "BorrowPanic", 0, 0, 0, depth)
                   /\ status' = "panicked"
                   /\ UNCHANGED <<resolvers, borrows, stack, nextId, ctorCalls,
                                  okCount, handles>>
              ELSE /\ resolvers' = remove(resolvers, t)
                   /\ stack' = Append(stack, Frame(t, "Builder"))
                   /\ ctorCalls' = [ctorCalls EXCEPT ![t] = @ + 1]
                   /\ last' = Ret("enter", t, "Ok", 0, 0, 0, depth)
                   /\ UNCHANGED <<borrows, nextId, status, okCount, handles>>
         [] kind = "Factory" ->
              \* call_factory: self.resolvers.borrow() is held by the if-let
              \* for the whole call of the closure; cell.borrow_mut()
              IF resolvers[t].cell
              THEN /\ last' = Ret("resolve", t, "BorrowPanic", 0, 0, 0, depth)
                   /\ status' = "panicked"
                   /\ UNCHANGED <<resolvers, borrows, stack, nextId, ctorCalls,
                                  okCount, handles>>
              ELSE /\ borrows' = borrows + 1
                   /\ resolvers' = [resolvers EXCEPT ![t] = factory_enter(@)]
                   /\ stack' = Append(stack, Frame(t, "Factory"))
                   /\ ctorCalls' = [ctorCalls EXCEPT ![t] = @ + 1]
                   /\ last' = Ret("enter", t, "Ok", 0, 0, 0, depth)
                   /\ UNCHANGED <<nextId, status, okCount, handles>>
    /\ UNCHANGED <<regKind, regVal>>

\* resolve::<T>() called by the owner of the container
resolve(t) ==
    /\ stack = <<>>
    /\ resolve_as_any(t, FALSE)

\* container.resolve() called by the running constructor
resolve_nested(t, strict) ==
    /\ stack # <<>>
    /\ resolve_as_any(t, strict)

\* The running builder returns: the rest of consume_builder (insert the
\* item as Shared), then get_shared in resolve_as_any.
builder_return(strict) ==
    /\ status = "running"
    /\ stack # <<>>
    /\ Top(stack).kind = "Builder"
    /\ LET f == Top(stack)
           item == builder_item(f.acc)
           ins == insert(resolvers, borrows, f.t, memoize(f.t, nextId[f.t], item))
           depth == Len(stack) - 1
       IN
       CASE ins.res = "Ok" ->
              LET h == get_shared(ins.r, f.t) IN
              /\ resolvers' = ins.r
              /\ nextId' = [nextId EXCEPT ![f.t] = @ + 1]
              /\ stack' = Deliver(Pop(stack), h.val)
              /\ okCount' = [okCount EXCEPT ![f.t] = @ + 1]
              /\ handles' = [handles EXCEPT ![f.t] = @ \cup {h.id}]
              /\ last' = Ret("return", f.t, "Ok", h.id, h.val, f.acc, depth)
              /\ UNCHANGED status
         [] ins.res = "Duplicate" ->
              /\ stack' = Pop(stack)
              /\ last' = Ret("return", f.t, "Duplicate", 0, 0, f.acc, depth)
              /\ status' = IF depth > 0 THEN Unwrap("Duplicate", strict) ELSE "running"
              /\ UNCHANGED <<resolvers, nextId, okCount, handles>>
         [] ins.res = "BorrowPanic" ->
              /\ last' = Ret("return", f.t, "BorrowPanic", 0, 0, f.acc, depth)
              /\ status' = "panicked"
              /\ UNCHANGED <<resolvers, stack, nextId, okCount, handles>>
    /\ UNCHANGED <<borrows, calls, ctorCalls, regKind, regVal>>

\* The running factory returns: the rest of call_factory.
factory_return ==
    /\ status = "running"
    /\ stack # <<>>
    /\ Top(stack).kind = "Factory"
    /\ LET f == Top(stack)
           item == factory_item(f.acc, resolvers[f.t].state)
       IN
       /\ resolvers' = [resolvers EXCEPT ![f.t] = factory_leave(@)]
       /\ borrows' = borrows - 1
       /\ nextId' = [nextId EXCEPT ![f.t] = @ + 1]
       /\ stack' = Deliver(Pop(stack), item)
       /\ okCount' = [okCount EXCEPT ![f.t] = @ + 1]
       /\ handles' = [handles EXCEPT ![f.t] = @ \cup {nextId[f.t]}]
       /\ last' = Ret("return", f.t, "Ok", nextId[f.t], item, f.acc, Len(stack) - 1)
    /\ UNCHANGED <<calls, status, ctorCalls, regKind, regVal>>

Next ==
    \/ \E t \in Types, v \in Values : register(t, v)
    \/ \E t \in Types : register_factory(t)
    \/ \E t \in Types : register_builder(t)
    \/ \E t \in Types : register_automatic_factory(t)
    \/ \E t \in Types : has_top(t)
    \/ \E t \in Types : has_nested(t)
    \/ \E t \in Types : resolve(t)
    \/ \E t \in Types, strict \in BOOLEAN : resolve_nested(t, strict)
    \/ \E strict \in BOOLEAN : builder_return(strict)
    \/ factory_return

Spec == Init /\ [][Next]_vars

----------------------------------------------------------------------------
\* Properties

RegisterOps == {"register", "register_builder", "register_factory"}

\* a resolve() call was issued in the step
ResolveIssued == calls' = calls + 1

\* C1: the closure of a type registered with register_builder is entered at
\* most once whatever calls are made, nested ones included, and exactly
\* once as soon as one resolve() of the type has returned Ok.
C1_BuilderRunsOnce ==
    \A t \in Types :
        regKind[t] = "Builder" =>
            /\ ctorCalls[t] <= 1
            /\ okCount[t] >= 1 => ctorCalls[t] = 1

\* a builder type resolved more than once, built once
C1_Witness ==
    \E t \in Types :
        regKind[t] = "Builder" /\ okCount[t] >= 2 /\ ctorCalls[t] = 1

\* C2: every Ok resolve() of a type registered with register or
\* register_builder returns the same Rc, and every Ok resolve() of a type
\* registered with register_factory returns an Rc of its own.
C2_HandleIdentity ==
    \A t \in Types :
        /\ regKind[t] \in {"Shared", "Builder"} => Cardinality(handles[t]) <= 1
        /\ regKind[t] = "Factory" => Cardinality(handles[t]) = okCount[t]

\* a builder type and a factory type, each resolved twice
C2_Witness ==
    \E t, u \in Types :
        /\ regKind[t] = "Builder" /\ okCount[t] >= 2
        /\ regKind[u] = "Factory" /\ okCount[u] >= 2

\* C3: a register, register_builder or register_factory call for a type
\* that was registered before returns the duplicate error and leaves every
\* entry of the registry as it was.
C3_DuplicateRejected ==
    [][(last'.op \in RegisterOps /\ regKind[last'.t] # "None") =>
          /\ last'.res = "Duplicate"
          /\ resolvers' = resolvers
          /\ regKind' = regKind
          /\ regVal' = regVal]_vars

\* register_factory rejected for a type whose builder was memoized
C3_Witness ==
    /\ last.op = "register_factory"
    /\ last.res = "Duplicate"
    /\ regKind[last.t] = "Builder"
    /\ resolvers[last.t].kind = "Shared"

\* C4: the k-th resolve() of a factory type that returns is the k-th entry
\* into the factory, sees the counter the earlier entries left and returns
\* base - k: 43 - 1 = 42, then 43 - 2 = 41.
C4_FactoryStatePersists ==
    (last.op = "return" /\ last.res = "Ok" /\ regKind[last.t] = "Factory") =>
        /\ ctorCalls[last.t] = okCount[last.t]
        /\ resolvers[last.t].state = okCount[last.t]
        /\ last.val = last.base - okCount[last.t]

\* the second resolution of the factory of the doc test yields 41
C4_Witness ==
    /\ last.op = "return" /\ last.res = "Ok"
    /\ regKind[last.t] = "Factory"
    /\ okCount[last.t] = 2
    /\ last.base = 43
    /\ last.val = 41

\* C5: resolve() of a type that was never registered returns the 'not
\* registered' error, enters no constructor and changes no entry, also
\* when a running constructor makes the call.
C5_NotRegistered ==
    [][(ResolveIssued /\ regKind[last'.t] = "None") =>
          /\ last'.op = "resolve"
          /\ last'.res = "NotRegistered"
          /\ resolvers' = resolvers
          /\ borrows' = borrows
          /\ ctorCalls' = ctorCalls
          /\ stack' = stack]_vars

\* a constructor got the error for a type never registered and went on
C5_Witness ==
    /\ last.op = "resolve" /\ last.res = "NotRegistered"
    /\ regKind[last.t] = "None"
    /\ last.depth > 0
    /\ status = "running"

\* C6: a resolve() a running builder makes for a type that has an entry
\* (Shared, Builder or Factory) neither fails nor panics; when a builder
\* returns, its resolve() returns Ok with the item it computed from what it
\* resolved (base - 1), and that item is the type's Shared entry; whenever
\* no constructor runs, every builder type that was entered is Shared.
C6_NestedInBuilder ==
    [][/\ (/\ ResolveIssued
           /\ stack # <<>>
           /\ Top(stack).kind = "Builder"
           /\ has(resolvers, last'.t))
          => (last'.res = "Ok" /\ status' = "running")
       /\ (/\ last'.op = "return"
           /\ stack # <<>>
           /\ Top(stack).kind = "Builder")
          => (/\ last'.res = "Ok"
              /\ last'.val = Top(stack).acc - 1
              /\ resolvers'[last'.t] = SharedEntry(last'.t, last'.id, last'.val))
       /\ (stack' = <<>> /\ status' = "running")
          => \A t \in Types :
                 (regKind[t] = "Builder" /\ ctorCalls'[t] > 0)
                     => resolvers'[t].kind = "Shared"]_vars

\* the chain of the doc test: i16 is 43, resolving i64 built i32 = 42 and
\* i64 = 41, each once, and i32 was resolved directly afterwards
C6_Witness ==
    /\ regKind["i16"] = "Shared" /\ resolvers["i16"].val = 43
    /\ regKind["i32"] = "Builder" /\ resolvers["i32"].val = 42
    /\ regKind["i64"] = "Builder" /\ resolvers["i64"].val = 41
    /\ ctorCalls["i32"] = 1 /\ ctorCalls["i64"] = 1
    /\ last.op = "resolve" /\ last.t = "i32" /\ last.depth = 0
    /\ last.res = "Ok" /\ last.val = 42

\* C7: a resolve() call that a constructor makes for a type other than the
\* types whose constructors are running never ends in a borrow failure of
\* a RefCell.
C7_NoBorrowFailure ==
    last.res = "BorrowPanic" => last.t \in Active(stack)

\* C8: a resolve() of a type whose builder is running, made by that builder
\* or by a constructor below it, returns the 'not registered' error at
\* once: no constructor is entered.
C8_SelfReference ==
    [][(ResolveIssued /\ last'.t \in Building(stack)) =>
          /\ last'.op = "resolve"
          /\ last'.res = "NotRegistered"
          /\ ctorCalls' = ctorCalls
          /\ stack' = stack
          /\ resolvers' = resolvers]_vars

\* the cycle A -> B -> A: B's constructor got the error for A and went on
C8_Witness ==
    /\ last.op = "resolve" /\ last.res = "NotRegistered"
    /\ Len(stack) >= 2
    /\ last.t = stack[1].t /\ stack[1].kind = "Builder"
    /\ status = "running"

\* C9 as stated: has() returns true exactly for the types for which a
\* registration has succeeded, wherever it is called.
C9_HasAfterRegistration ==
    last.op = "has" => (last.res = "True" <=> regKind[last.t] # "None")

\* C9, amended: has() returns true exactly for the types for which a
\* registration has succeeded and whose builder is not running at the
\* moment of the call; has() changes nothing.
C9_HasUnlessBuilding ==
    [][last'.op = "has" =>
          /\ last'.res = "True" <=>
                 (regKind[last'.t] # "None" /\ last'.t \notin Building(stack))
          /\ UNCHANGED <<resolvers, borrows, stack, nextId, calls, status,
                         ctorCalls, okCount, handles, regKind, regVal>>]_vars

\* has() is true inside a running builder for a registered type that is
\* not being built, here a builder not yet entered
C9_Witness ==
    /\ last.op = "has" /\ last.res = "True"
    /\ Building(stack) # {}
    /\ regKind[last.t] = "Builder" /\ ctorCalls[last.t] = 0

\* C10: every resolve() of a type registered with register(v) returns Ok
\* with the value v and changes neither the registry nor its borrow state.
C10_SharedValue ==
    [][(ResolveIssued /\ regKind[last'.t] = "Shared") =>
          /\ last'.op = "resolve"
          /\ last'.res = "Ok"
          /\ last'.val = regVal[last'.t]
          /\ resolvers' = resolvers
          /\ borrows' = borrows]_vars

\* the second resolution of a registered value, after a constructor of
\* another type has run and another value was registered
C10_Witness ==
    /\ last.op = "resolve" /\ last.res = "Ok"
    /\ regKind[last.t] = "Shared" /\ last.val = regVal[last.t]
    /\ okCount[last.t] >= 2
    /\ \E u \in Types \ {last.t} : ctorCalls[u] > 0
    /\ \E u \in Types \ {last.t} : regKind[u] = "Shared" /\ regVal[u] # regVal[last.t]

\* C11: register_automatic_factory returns the 'not implemented' error to
\* its caller, which goes on running, and the registry is as it was.
C11_NotImplementedReturned ==
    last.op = "register_automatic_factory" =>
        /\ last.res = "NotImplemented"
        /\ status = "running"
        /\ regKind[last.t] = "None" => ~has(resolvers, last.t)

\* the variant a key has between two calls of the owner, given the
\* registration that succeeded for it and the entries into its constructor
ExpectedKind(rk, entered) ==
    IF rk = "Builder" /\ entered > 0 THEN "Shared" ELSE rk

\* C12: a key gets an entry only by the first successful registration for
\* it; a Builder entry leaves the map only when its builder is entered for
\* the first resolution and comes back only as Shared when that builder
\* returns; a Shared or Factory entry keeps its variant; and whenever no
\* call is in progress each registered key is present with the variant it
\* was registered with, or Shared for a builder that was resolved.
C12_EntryStateMachine ==
    [][\A t \in Types :
          LET k == resolvers[t].kind
              kn == resolvers'[t].kind
          IN
          /\ k \in {"Shared", "Factory"} => kn = k
          /\ (k = "None" /\ kn # "None") =>
                 \/ /\ regKind[t] = "None"
                    /\ last'.op \in RegisterOps /\ last'.t = t /\ last'.res = "Ok"
                    /\ regKind'[t] = kn
                 \/ /\ regKind[t] = "Builder"
                    /\ last'.op = "return" /\ last'.t = t
                    /\ kn = "Shared"
          /\ (k = "Builder" /\ kn # "Builder") =>
                 /\ kn = "None"
                 /\ last'.op = "enter" /\ last'.t = t
                 /\ ctorCalls[t] = 0
          /\ (stack' = <<>> /\ status' = "running") =>
                 kn = ExpectedKind(regKind'[t], ctorCalls'[t])]_vars

\* between calls: a builder memoized into Shared next to a factory that
\* was resolved and is still a Factory
C12_Witness ==
    /\ stack = <<>> /\ status = "running"
    /\ \E t, u \in Types :
          /\ regKind[t] = "Builder" /\ resolvers[t].kind = "Shared"
          /\ regKind[u] = "Factory" /\ okCount[u] > 0
          /\ resolvers[u].kind = "Factory"

\* C13: the entry stored under the key of a type carries a payload that
\* was erased from that type, so the Rc that get_shared hands to
\* downcast::<T>() holds a T.
C13_PayloadType ==
    \A t \in Types : has(resolvers, t) => resolvers[t].ty = t

\* resolve() has downcast the memoized item of a builder while entries of
\* the two other types are in the map
C13_Witness ==
    /\ last.op = "return" /\ last.res = "Ok"
    /\ regKind[last.t] = "Builder"
    /\ resolvers[last.t].ty = last.t
    /\ \A u \in Types : has(resolvers, u)

\* C14: a step of a resolve() for a type (the call, the entry into its
\* constructor, the return of its constructor) changes the entry of no
\* other type, and leaves a Factory entry a Factory; so a whole resolve()
\* changes only the entries of the types resolved in its course.
C14_ResolveFrame ==
    [][last'.op \in {"resolve", "enter", "return"} =>
          /\ \A u \in Types \ {last'.t} : resolvers'[u] = resolvers[u]
          /\ resolvers[last'.t].kind = "Factory" =>
                 resolvers'[last'.t].kind = "Factory"]_vars

\* the owner's resolve() of a factory type has returned; the builder of
\* another type, which nobody resolved, is still in the map
C14_Witness ==
    /\ last.op = "return" /\ last.res = "Ok" /\ last.depth = 0
    /\ regKind[last.t] = "Factory"
    /\ resolvers[last.t].kind = "Factory"
    /\ \E u \in Types \ {last.t} : resolvers[u].kind = "Builder"

\* C15: while the builder of a type runs the type's key is not in the map
\* and no second builder of the type runs, so when a builder returns, the
\* insert of its item succeeds: the resolve() never returns the duplicate
\* error (nor panics in insert).
C15_ReinsertSucceeds ==
    /\ \A i \in 1..Len(stack) :
           stack[i].kind = "Builder" =>
               /\ ~has(resolvers, stack[i].t)
               /\ \A j \in 1..Len(stack) : stack[j].t = stack[i].t => j = i
    /\ last.op = "return" => last.res = "Ok"

\* a builder entered from inside another builder has returned and its item
\* was inserted while the outer builder is still running
C15_Witness ==
    /\ last.op = "return" /\ last.res = "Ok" /\ last.depth > 0
    /\ regKind[last.t] = "Builder"
    /\ resolvers[last.t].kind = "Shared"
    /\ Building(stack) # {}

\* the types for which a registration has succeeded
Registered == {t \in Types : regKind[t] # "None"}

\* C16: no type has two running constructors, so the constructors that run
\* at the same time are never more than the registered types; a resolve()
\* whose constructors each make finitely many calls therefore ends.
C16_DepthBounded ==
    /\ \A i, j \in 1..Len(stack) : stack[i].t = stack[j].t => i = j
    /\ Len(stack) <= Cardinality(Registered)

\* the constructors of all the types are running and the innermost one
\* asked for the outermost type: the cycle ended with an error
C16_Witness ==
    /\ Len(stack) = Cardinality(Types)
    /\ last.op = "resolve" /\ last.res = "NotRegistered"
    /\ last.t = stack[1].t
    /\ status = "running"

\* the types whose factory is running
FactoryRunning(s) == {s[i].t : i \in {j \in 1..Len(s) : s[j].kind = "Factory"}}

\* C17: a factory has at most one running invocation, which holds the
\* exclusive borrow of its cell; a resolve() of a type whose factory is
\* running panics on that borrow before the closure is entered again, it
\* does not return an error value.
C17_FactoryNotReentrant ==
    [][/\ \A i, j \in 1..Len(stack') :
              (stack'[i].kind = "Factory" /\ stack'[i].t = stack'[j].t) => i = j
       /\ \A t \in Types : resolvers'[t].cell <=> t \in FactoryRunning(stack')
       /\ (ResolveIssued /\ last'.t \in FactoryRunning(stack)) =>
              /\ last'.op = "resolve"
              /\ last'.res = "BorrowPanic"
              /\ status' = "panicked"
              /\ ctorCalls' = ctorCalls
              /\ resolvers' = resolvers]_vars

\* a factory resolved another factory, which asked for the first one
C17_Witness ==
    /\ last.op = "resolve" /\ last.res = "BorrowPanic"
    /\ status = "panicked"
    /\ Len(stack) >= 2
    /\ stack[1].kind = "Factory" /\ last.t = stack[1].t
    /\ ctorCalls[last.t] = 1

====
